---------------------------- MODULE Spec2Model ----------------------------
(***************************************************************************)
(* A model of the ara-lang `source` crate: Source (src/src/source.rs),      *)
(* SourceMap (src/src/lib.rs) and the file and directory loaders            *)
(* (src/src/loader.rs).                                                     *)
(*                                                                          *)
(* Strings are sequences of one-character strings, so that starts_with,    *)
(* ends_with, strip_prefix, Path::extension and usize::to_string are        *)
(* computed as the code computes them.  Option<T> is a sequence of length   *)
(* 0 (None) or 1 (Some).                                                    *)
(***************************************************************************)
EXTENDS Integers, Sequences, FiniteSets

VARIABLES
    \* SourceMap (lib.rs)
    maps,       \* the `sources` Vec of the two SourceMap values "map" and "other"
    drained,    \* observer: the maps that were the donor of the last merge touching them
    build,      \* the build profile: overflow checks on ("debug") or off ("release")
    ret,        \* the last SourceMap call and what it returned
    \* Source (source.rs)
    source,     \* one Source value
    disk,       \* Option: the text of the file at source_path(), None when it cannot be read
    hist,       \* observer (a counting stub filesystem): the calls made and which opened the file
    sret,       \* what the last Source call returned
    \* loaders (loader.rs)
    fs,         \* the filesystem: path -> "none" | "file" | "badfile" | "dir" | "baddir"
    order,      \* the enumeration order of read_dir on this platform
    loaders,    \* DirectorySourceLoader.loaders: the roots of its FileSourceLoaders
    lret        \* the last loader call and what it returned

mapVars == <<maps, drained, build, ret>>
srcVars == <<source, disk, hist, sret>>
ldrVars == <<fs, order, loaders, lret>>
vars == <<maps, drained, build, ret, source, disk, hist, sret, fs, order, loaders, lret>>

-----------------------------------------------------------------------------
(* Bounds of the model. *)

\* the two SourceMaps hold at most this many sources together
MaxLen == 3
\* at most this many calls are made on the Source
MaxOps == 4
\* at most this many FileSourceLoaders are registered on the directory loader
MaxLoaders == 2

\* usize is modelled with this many bits (TLC's integers have 32): all that the
\* model reads of the width is that 0 - 1 wraps to a value no Vec length reaches.
UsizeBits == 16
UsizeModulus == 2 ^ UsizeBits

-----------------------------------------------------------------------------
(* Option and strings. *)

None == <<>>
Some(x) == <<x>>
IsSome(o) == Len(o) = 1
Unwrap(o) == o[1]

\* str::starts_with
StartsWith(s, p) == Len(p) <= Len(s) /\ SubSeq(s, 1, Len(p)) = p
\* str::ends_with
EndsWith(s, p) == Len(p) <= Len(s) /\ SubSeq(s, Len(s) - Len(p) + 1, Len(s)) = p
\* str::strip_prefix: Some(rest) when s starts with p
StripPrefix(s, p) == IF StartsWith(s, p) THEN Some(SubSeq(s, Len(p) + 1, Len(s))) ELSE None

\* the position of the last c in s, 0 when there is none
LastIndexOf(s, c) ==
    LET at == {i \in 1..Len(s) : s[i] = c}
    IN IF at = {} THEN 0 ELSE CHOOSE i \in at : \A j \in at : j <= i

Digits == <<"0", "1", "2", "3", "4", "5", "6", "7", "8", "9">>
\* usize::to_string: the decimal digits of n
RECURSIVE ToString(_)
ToString(n) ==
    IF n < 10 THEN <<Digits[n + 1]>>
    ELSE ToString(n \div 10) \o <<Digits[(n % 10) + 1]>>

\* Path::file_name for the paths of the model (none ends in a separator but the root)
FileName(p) == SubSeq(p, LastIndexOf(p, "/") + 1, Len(p))

\* Path::extension: the part of the file name after its last '.', None when the
\* name has no '.' or only a leading one
Extension(p) ==
    LET f == FileName(p)
        d == LastIndexOf(f, ".")
    IN IF f = <<>> \/ d = 0 \/ d = 1 THEN None
       ELSE Some(SubSeq(f, d + 1, Len(f)))

ARA_SCRIPT_EXTENSION == <<"a", "r", "a">>
ARA_DEFINTION_EXTENSION == <<"d", ".", "a", "r", "a">>

-----------------------------------------------------------------------------
(* Source: construction (source.rs). *)

\* Source::new(kind, root, origin)
SourceNew(kind, root, origin) ==
    [kind |-> kind, root |-> Some(root), origin |-> Some(origin), content |-> None]

\* Source::inline(kind, content)
SourceInline(kind, content) ==
    [kind |-> kind, root |-> None, origin |-> None, content |-> Some(content)]

\* PathBuf::join: an absolute b replaces a, otherwise b follows a and a separator
PathJoin(a, b) ==
    IF StartsWith(b, <<"/">>) THEN b
    ELSE IF a = <<>> \/ EndsWith(a, <<"/">>) THEN a \o b
    ELSE a \o <<"/">> \o b

\* Source::source_path: root joined with origin, None without a root
SourcePath(s) ==
    IF IsSome(s.root) THEN Some(PathJoin(Unwrap(s.root), Unwrap(s.origin))) ELSE None

-----------------------------------------------------------------------------
(* Results. *)

Ok(v) == [kind |-> "Ok", value |-> v]
Err(k, key) == [kind |-> k, value |-> key]
Panic == [kind |-> "Panic", value |-> <<>>]
NoCall == [kind |-> "None", value |-> <<>>]

-----------------------------------------------------------------------------
(* SourceMap (lib.rs). *)

MapNames == {"map", "other"}

RootStr == <<"/", "r", "/">>
OriginA == <<"a">>
OriginB == <<"b">>
OriginC == <<"c">>

\* the sources the model adds to a SourceMap: two share the origin "a"
MapSources ==
    { SourceNew("Script", RootStr, OriginA),
      SourceNew("Definition", RootStr, OriginA),
      SourceNew("Script", RootStr, OriginB),
      SourceInline("Script", <<"x">>) }

\* usize subtraction: a panic with overflow checks, a wrap without
UsizeSub(a, b) ==
    IF a < b /\ build = "debug" THEN None ELSE Some((a - b) % UsizeModulus)

\* Vec::get on a 0-based index
VecGet(v, idx) == IF idx < Len(v) THEN Some(v[idx + 1]) ELSE None

\* SourceMap::get without the `- 1`
GetNoOffset(sources, index) ==
    LET found == VecGet(sources, index)
    IN IF IsSome(found) THEN Ok(Unwrap(found))
       ELSE Err("SourceNotFound", ToString(index))

\* SourceMap::get
Get(sources, index) ==
    LET idx == UsizeSub(index, 1)
    IN IF ~IsSome(idx) THEN Panic
       ELSE LET found == VecGet(sources, Unwrap(idx))
            IN IF IsSome(found) THEN Ok(Unwrap(found))
               ELSE Err("SourceNotFound", ToString(index))

\* SourceMap::named: Iterator::find, the first source whose origin is Some(name)
Named(sources, name) ==
    LET hits == {i \in 1..Len(sources) : sources[i].origin = Some(name)}
    IN IF hits = {} THEN Err("SourceNotFound", name)
       ELSE Ok(sources[CHOOSE i \in hits : \A j \in hits : i <= j])

\* SourceMap::merge (Vec::append): the sources of self and of other after the call
Merge(self, other) == [self |-> self \o other, other |-> <<>>]

Alive == ret.res.kind # "Panic"

MapRet(op, self, other, index, name, res, preSelf, preOther) ==
    [op |-> op, self |-> self, other |-> other, index |-> index, name |-> name,
     res |-> res, preSelf |-> preSelf, preOther |-> preOther]

TotalLen == Len(maps["map"]) + Len(maps["other"])

\* m.add(s)
AddCall(m, s) ==
    /\ Alive
    /\ TotalLen < MaxLen
    /\ maps' = [maps EXCEPT ![m] = Append(@, s)]
    /\ drained' = [drained EXCEPT ![m] = FALSE]
    /\ ret' = MapRet("add", m, m, 0, <<>>, Ok(s), maps[m], <<>>)
    /\ UNCHANGED <<build, srcVars, ldrVars>>

\* a.merge(&mut b)
MergeCall(a, b) ==
    /\ Alive
    /\ a # b
    /\ LET after == Merge(maps[a], maps[b])
       IN maps' = [maps EXCEPT ![a] = after.self, ![b] = after.other]
    /\ drained' = [drained EXCEPT ![a] = FALSE, ![b] = TRUE]
    /\ ret' = MapRet("merge", a, b, 0, <<>>, Ok(<<>>), maps[a], maps[b])
    /\ UNCHANGED <<build, srcVars, ldrVars>>

\* m.get(i)
GetCall(m, i) ==
    /\ Alive
    /\ ret' = MapRet("get", m, m, i, <<>>, Get(maps[m], i), maps[m], <<>>)
    /\ UNCHANGED <<maps, drained, build, srcVars, ldrVars>>

\* m.named(n)
NamedCall(m, n) ==
    /\ Alive
    /\ ret' = MapRet("named", m, m, 0, n, Named(maps[m], n), maps[m], <<>>)
    /\ UNCHANGED <<maps, drained, build, srcVars, ldrVars>>

InitMap ==
    /\ maps = [m \in MapNames |-> <<>>]
    /\ drained = [m \in MapNames |-> FALSE]
    /\ build \in {"debug", "release"}
    /\ ret = MapRet("new", "map", "map", 0, <<>>, NoCall, <<>>, <<>>)
    /\ source = SourceInline("Script", <<"x">>) /\ disk = None /\ hist = <<>>
    /\ sret = NoCall
    /\ fs = [p \in {} |-> "none"] /\ order = "fwd" /\ loaders = <<>>
    /\ lret = NoCall

NextMap ==
    \/ \E m \in MapNames, s \in MapSources : AddCall(m, s)
    \/ \E a, b \in MapNames : MergeCall(a, b)
    \/ \E m \in MapNames, i \in 0..(MaxLen + 1) : GetCall(m, i)
    \/ \E m \in MapNames, n \in {OriginA, OriginB, OriginC} : NamedCall(m, n)

-----------------------------------------------------------------------------
(* Source: content(), hash() and dispose_content() (source.rs). *)

InlineText == <<"x">>
FileText == <<"t">>

\* the Source values of the model: two located, two inline
SourceValues ==
    { SourceNew("Script", RootStr, OriginA),
      SourceNew("Definition", RootStr, OriginB),
      SourceInline("Script", InlineText),
      SourceInline("Definition", InlineText) }

\* what a call on a Source leaves: the Source, the result, whether the file was opened
Outcome(s, res, read) == [source |-> s, res |-> res, read |-> read]

\* Source::content that opens the file whether or not the text is cached
ContentAlwaysReads(s, d) ==
    IF ~IsSome(SourcePath(s)) THEN
        IF IsSome(s.content) THEN Outcome(s, Ok(Unwrap(s.content)), FALSE)
        ELSE Outcome(s, Panic, FALSE)
    ELSE IF ~IsSome(d) THEN Outcome(s, Err("IoError", <<>>), TRUE)
    ELSE Outcome([s EXCEPT !.content = d], Ok(Unwrap(d)), TRUE)

\* Source::content on a Source s whose file holds d
Content(s, d) ==
    IF IsSome(s.content) THEN Outcome(s, Ok(Unwrap(s.content)), FALSE)
    ELSE IF ~IsSome(SourcePath(s)) THEN Outcome(s, Panic, FALSE)
    ELSE IF ~IsSome(d) THEN Outcome(s, Err("IoError", <<>>), TRUE)
    ELSE Outcome([s EXCEPT !.content = d], Ok(Unwrap(d)), TRUE)

\* FxHasher::hash: the digest is a function of the text alone; the model keeps
\* the text it was computed from in place of the 64 bits
FxHash(text) == <<"fx">> \o text

\* Source::hash
Hash(s, d) ==
    LET c == Content(s, d)
    IN IF c.res.kind = "Ok" THEN [c EXCEPT !.res = Ok(FxHash(c.res.value))] ELSE c

\* Source::dispose_content
DisposeContent(s) == [s EXCEPT !.content = None]

SourceAlive == sret.kind # "Panic" /\ Len(hist) < MaxOps

\* source.content()
ContentCall ==
    /\ SourceAlive
    /\ LET c == Content(source, disk)
       IN /\ source' = c.source
          /\ sret' = c.res
          /\ hist' = Append(hist, [op |-> "content", read |-> c.read])
    /\ UNCHANGED <<disk, mapVars, ldrVars>>

\* source.hash()
HashCall ==
    /\ SourceAlive
    /\ LET c == Hash(source, disk)
       IN /\ source' = c.source
          /\ sret' = c.res
          /\ hist' = Append(hist, [op |-> "hash", read |-> c.read])
    /\ UNCHANGED <<disk, mapVars, ldrVars>>

\* source.dispose_content()
DisposeCall ==
    /\ SourceAlive
    /\ source' = DisposeContent(source)
    /\ sret' = Ok(<<>>)
    /\ hist' = Append(hist, [op |-> "dispose", read |-> FALSE])
    /\ UNCHANGED <<disk, mapVars, ldrVars>>

InitSource ==
    /\ source \in SourceValues
    /\ disk \in IF IsSome(source.root) THEN {None, Some(FileText)} ELSE {None}
    /\ hist = <<>>
    /\ sret = NoCall
    /\ maps = [m \in MapNames |-> <<>>] /\ drained = [m \in MapNames |-> FALSE]
    /\ build = "release" /\ ret = NoCall
    /\ fs = [p \in {} |-> "none"] /\ order = "fwd" /\ loaders = <<>>
    /\ lret = NoCall

NextSource == ContentCall \/ HashCall \/ DisposeCall

-----------------------------------------------------------------------------
(* The filesystem the loaders read. *)

\* a byte that is not valid Unicode: OsStr::to_str is None on a name holding it
NonUnicode == "!"

NameMain == <<"m", ".", "a", "r", "a">>
NameRoad == <<"o", "d", ".", "a", "r", "a">>
NameDef == <<"w", ".", "d", ".", "a", "r", "a">>
NameTxt == <<"n", ".", "t", "x", "t">>
NameBad == <<NonUnicode>>

DirRoot == <<"/", "r">>
DirS == <<"/", "r", "/", "s">>
DirT == DirS \o <<"/", "t">>
DirX == <<"/", "x">>
FileMain == DirS \o <<"/">> \o NameMain
FileRoad == DirS \o <<"/">> \o NameRoad
FileTxt == DirS \o <<"/">> \o NameTxt
FileBad == DirS \o <<"/">> \o NameBad
FileDef == DirT \o <<"/">> \o NameDef
FileOut == DirX \o <<"/">> \o NameMain

\* a second loader root, below the first
RootS == DirS \o <<"/">>
\* the process's working directory, against which the OS resolves a relative path
Cwd == DirRoot
RelS == <<"s">>
RelMain == <<"s", "/">> \o NameMain

\* every path of the model, in the order read_dir lists them when order = "fwd"
PathList ==
    <<DirRoot, DirS, FileMain, DirT, FileRoad, FileTxt, FileBad, FileDef, DirX, FileOut>>
AllPaths == {PathList[i] : i \in 1..Len(PathList)}

Parent(p) == SubSeq(p, 1, LastIndexOf(p, "/") - 1)

\* the path the OS looks up: relative to the working directory, no trailing separator
Resolve(name) ==
    LET abs == PathJoin(Cwd, name)
    IN IF Len(abs) > 1 /\ EndsWith(abs, <<"/">>) THEN SubSeq(abs, 1, Len(abs) - 1) ELSE abs

NodeKind(name) == IF Resolve(name) \in AllPaths THEN fs[Resolve(name)] ELSE "none"

\* Path::is_dir, Path::is_file
IsDir(name) == NodeKind(name) \in {"dir", "baddir"}
IsFile(name) == NodeKind(name) \in {"file", "badfile"}

\* the text of a file
TextOf(p) == <<"#">> \o FileName(p)

\* std::fs::read_to_string: None is an io::Error
ReadToString(name) ==
    IF NodeKind(name) = "file" THEN Some(TextOf(Resolve(name))) ELSE None

Reverse(s) == [i \in 1..Len(s) |-> s[Len(s) + 1 - i]]

IsChildOf(q, p) == fs[q] # "none" /\ Parent(q) = p

\* std::fs::read_dir and entry.path() of every entry: None is an io::Error
ReadDir(name) ==
    IF NodeKind(name) # "dir" THEN None
    ELSE LET listed == IF order = "fwd" THEN PathList ELSE Reverse(PathList)
             at == SelectSeq(listed, LAMBDA q : IsChildOf(q, Resolve(name)))
         IN Some([i \in 1..Len(at) |-> PathJoin(name, FileName(at[i]))])

\* Path::to_str, OsStr::to_str
ToStr(p) == IF \E i \in 1..Len(p) : p[i] = NonUnicode THEN None ELSE Some(p)

\* a filesystem from the kind of every node; a node exists only in a listable directory
MakeFs(kS, kT, kMain, kRoad, kTxt, kBad, kDef, kOut) ==
    LET inS(k) == IF kS = "dir" THEN k ELSE "none"
        inT(k) == IF inS(kT) = "dir" THEN k ELSE "none"
    IN [p \in AllPaths |->
            CASE p = DirRoot -> "dir"
              [] p = DirS -> kS
              [] p = DirT -> inS(kT)
              [] p = FileMain -> inS(kMain)
              [] p = FileRoad -> inS(kRoad)
              [] p = FileTxt -> inS(kTxt)
              [] p = FileBad -> inS(kBad)
              [] p = FileDef -> inT(kDef)
              [] p = DirX -> "dir"
              [] p = FileOut -> kOut]

-----------------------------------------------------------------------------
(* The loaders (loader.rs). *)

\* Result<SourceMap, Error> of a load, with the number of file texts it read
LoadOk(sources, reads) == [kind |-> "Ok", sources |-> sources, msg |-> <<>>, reads |-> reads]
LoadErr(k, msg, reads) == [kind |-> k, sources |-> <<>>, msg |-> msg, reads |-> reads]

\* the message of Error::InvalidSource: "source ", the quoted name, " is not supported."
NotSupported(name) == <<"source ", "'">> \o name \o <<"'", " is not supported.">>

\* FileSourceLoader::supports
FileSupports(root, name) ==
    /\ StartsWith(name, root)
    /\ IsFile(name)
    /\ LET extension == Extension(name)
       IN /\ IsSome(extension)
          /\ IsSome(ToStr(Unwrap(extension)))
          /\ Unwrap(extension) = ARA_SCRIPT_EXTENSION

\* FileSourceLoader::load without its call of supports
FileLoadUnchecked(root, name) ==
    LET kind == IF EndsWith(name, ARA_DEFINTION_EXTENSION) THEN "Definition" ELSE "Script"
        content == ReadToString(name)
        stripped == StripPrefix(name, root)
    IN IF ~IsSome(content) THEN LoadErr("IoError", <<>>, 1)
       ELSE IF ~IsSome(stripped) THEN LoadErr("Panic", <<>>, 1)
       ELSE LoadOk(<<SourceNew(kind, Unwrap(stripped), Unwrap(content))>>, 1)

\* FileSourceLoader::load
FileLoad(root, name) ==
    IF ~FileSupports(root, name) THEN LoadErr("InvalidSource", NotSupported(name), 0)
    ELSE LET kind == IF EndsWith(name, ARA_DEFINTION_EXTENSION) THEN "Definition"
                     ELSE "Script"
             content == ReadToString(name)
             stripped == StripPrefix(name, root)
         IN IF ~IsSome(content) THEN LoadErr("IoError", <<>>, 1)
            ELSE IF ~IsSome(stripped) THEN LoadErr("Panic", <<>>, 1)
            ELSE LoadOk(<<SourceNew(kind, Unwrap(stripped), Unwrap(content))>>, 1)

\* DirectorySourceLoader::supports
RECURSIVE DirSupports(_, _)
DirSupports(root, name) ==
    /\ StartsWith(name, root)
    /\ IsDir(name)
    /\ LET entries == ReadDir(name)
       IN /\ IsSome(entries)
          /\ \A i \in 1..Len(Unwrap(entries)) :
                LET path == Unwrap(entries)[i]
                IN /\ IsSome(ToStr(path))
                   /\ IsDir(path) => DirSupports(root, path)

\* the position in ldrs of the first loader that supports name, 0 when none does
FirstLoader(ldrs, name) ==
    LET able == {i \in 1..Len(ldrs) : FileSupports(ldrs[i], name)}
    IN IF able = {} THEN 0 ELSE CHOOSE i \in able : \A j \in able : i <= j

\* DirectorySourceLoader::load, and its loop over entries[k..] with map the
\* SourceMap so far and reads the file texts read so far
RECURSIVE DirLoad(_, _, _)
RECURSIVE LoadEntries(_, _, _, _, _, _)
LoadEntries(root, ldrs, entries, k, map, reads) ==
    IF k > Len(entries) THEN LoadOk(map, reads)
    ELSE LET path == entries[k]
         IN IF ~IsSome(ToStr(path)) THEN LoadErr("Panic", <<>>, reads)
            ELSE IF IsDir(path) THEN
                LET sub == DirLoad(root, ldrs, path)
                IN IF sub.kind # "Ok" THEN [sub EXCEPT !.reads = reads + sub.reads]
                   ELSE LoadEntries(root, ldrs, entries, k + 1,
                                    Merge(map, sub.sources).self, reads + sub.reads)
            ELSE IF FirstLoader(ldrs, path) = 0 THEN
                LoadEntries(root, ldrs, entries, k + 1, map, reads)
            ELSE
                LET sub == FileLoad(ldrs[FirstLoader(ldrs, path)], path)
                IN IF sub.kind # "Ok" THEN [sub EXCEPT !.reads = reads + sub.reads]
                   ELSE LoadEntries(root, ldrs, entries, k + 1,
                                    Merge(map, sub.sources).self, reads + sub.reads)

DirLoad(root, ldrs, name) ==
    IF ~DirSupports(root, name) THEN LoadErr("InvalidSource", NotSupported(name), 0)
    ELSE LET entries == ReadDir(name)
         IN IF ~IsSome(entries) THEN LoadErr("Panic", <<>>, 0)
            ELSE LoadEntries(root, ldrs, Unwrap(entries), 1, <<>>, 0)

\* DirectorySourceLoader::new(root).loaders
NewLoaders(root) == <<root>>

\* load_directories, from directories[k..] on
RECURSIVE LoadDirectoriesFrom(_, _, _, _, _)
LoadDirectoriesFrom(root, directories, k, map, reads) ==
    IF k > Len(directories) THEN LoadOk(map, reads)
    ELSE LET sub == DirLoad(root, NewLoaders(root), directories[k])
         IN IF sub.kind # "Ok" THEN [sub EXCEPT !.reads = reads + sub.reads]
            ELSE LoadDirectoriesFrom(root, directories, k + 1,
                                     Merge(map, sub.sources).self, reads + sub.reads)

\* load_directories
LoadDirectories(root, directories) == LoadDirectoriesFrom(root, directories, 1, <<>>, 0)

LoaderRet(op, name, dirs, res, supports) ==
    [op |-> op, name |-> name, dirs |-> dirs, res |-> res, supports |-> supports]

FileNamesTried == {FileMain, FileRoad, FileTxt, FileDef, FileOut, RelMain, DirS}
DirNamesTried == {RootStr, DirS, DirT, DirX, RelS, FileMain}
DirListsTried == {<<RelS>>, <<DirS>>, <<DirS, DirT>>, <<DirT, DirX>>}

\* The loaders keep nothing between calls: a behaviour registers loaders, then
\* makes one load.
NoLoadYet == lret.op \in {"new", "add_loader"}

\* DirectorySourceLoader::add_loader(Box::new(FileSourceLoader::new(root)))
AddLoaderCall(root) ==
    /\ NoLoadYet
    /\ Len(loaders) < MaxLoaders
    /\ loaders' = Append(loaders, root)
    /\ lret' = LoaderRet("add_loader", root, <<>>, LoadOk(<<>>, 0), TRUE)
    /\ UNCHANGED <<fs, order, mapVars, srcVars>>

\* FileSourceLoader::new(root).load(name), with supports(name)
FileLoadCall(name) ==
    /\ NoLoadYet
    /\ lret' = LoaderRet("file_load", name, <<>>, FileLoad(RootStr, name),
                         FileSupports(RootStr, name))
    /\ UNCHANGED <<fs, order, loaders, mapVars, srcVars>>

\* the DirectorySourceLoader's load(name), with supports(name)
DirLoadCall(name) ==
    /\ NoLoadYet
    /\ lret' = LoaderRet("dir_load", name, <<>>, DirLoad(RootStr, loaders, name),
                         DirSupports(RootStr, name))
    /\ UNCHANGED <<fs, order, loaders, mapVars, srcVars>>

\* load_directories(root, dirs)
LoadDirectoriesCall(dirs) ==
    /\ NoLoadYet
    /\ lret' = LoaderRet("load_directories", <<>>, dirs, LoadDirectories(RootStr, dirs), TRUE)
    /\ UNCHANGED <<fs, order, loaders, mapVars, srcVars>>

InitLoader ==
    /\ \E kS, kT \in {"none", "dir", "baddir"}, kMain, kRoad, kDef \in {"none", "file", "badfile"},
          kTxt, kBad, kOut \in {"none", "file"} :
            fs = MakeFs(kS, kT, kMain, kRoad, kTxt, kBad, kDef, kOut)
    /\ order \in {"fwd", "rev"}
    /\ loaders = NewLoaders(RootStr)
    /\ lret = LoaderRet("new", <<>>, <<>>, LoadOk(<<>>, 0), TRUE)
    /\ maps = [m \in MapNames |-> <<>>] /\ drained = [m \in MapNames |-> FALSE]
    /\ build = "release" /\ ret = NoCall
    /\ source = SourceInline("Script", <<"x">>) /\ disk = None /\ hist = <<>>
    /\ sret = NoCall

NextLoader ==
    \/ \E root \in {RootStr, RootS} : AddLoaderCall(root)
    \/ \E name \in FileNamesTried : FileLoadCall(name)
    \/ \E name \in DirNamesTried : DirLoadCall(name)
    \/ \E dirs \in DirListsTried : LoadDirectoriesCall(dirs)

-----------------------------------------------------------------------------
(* The specifications: one per component, the other components at rest. *)

SpecMap == InitMap /\ [][NextMap]_vars

SpecSource == InitSource /\ [][NextSource]_vars

SpecLoader == InitLoader /\ [][NextLoader]_vars

-----------------------------------------------------------------------------
(* SourceMap: the claims. *)

\* C1: after self.merge(other) the sources of self are its old sources followed
\* by the old sources of other, other is empty, and every later get(i) or
\* named(o) on other fails with SourceNotFound.
C1_MergeDrainsOther ==
    /\ ret.op = "merge" =>
          /\ maps[ret.self] = ret.preSelf \o ret.preOther
          /\ maps[ret.other] = <<>>
    /\ (ret.op \in {"get", "named"} /\ drained[ret.self]) =>
          ret.res.kind = "SourceNotFound"

\* C2: get(0) and get(n + 1) on a collection of length n return SourceNotFound
\* keyed by the stringified index, without a panic and without an element.
C2_GetOutOfRange ==
    (ret.op = "get" /\ ret.index \in {0, Len(maps[ret.self]) + 1}) =>
        ret.res = Err("SourceNotFound", ToString(ret.index))

\* the source at i is the first of s with its origin
FirstWithOrigin(s, i) ==
    /\ IsSome(s[i].origin)
    /\ \A j \in 1..(i - 1) : s[j].origin # s[i].origin

\* C9: named(o) returns the first source in insertion order whose origin is o,
\* and SourceNotFound keyed by o when there is none; for the first source with
\* origin o, at 1-based position i, named(o) and get(i) return that source ...
C9_NamedIsFirstAndGetAgrees ==
    /\ ret.op = "named" =>
          LET s == maps[ret.self]
              hits == {i \in 1..Len(s) : s[i].origin = Some(ret.name)}
          IN IF hits = {} THEN ret.res = Err("SourceNotFound", ret.name)
             ELSE \E i \in hits : (\A j \in hits : i <= j) /\ ret.res = Ok(s[i])
    /\ \A m \in MapNames : \A i \in 1..Len(maps[m]) :
          FirstWithOrigin(maps[m], i) =>
              /\ Named(maps[m], Unwrap(maps[m][i].origin)) = Ok(maps[m][i])
              /\ Get(maps[m], i) = Ok(maps[m][i])

\* ... and an add or a merge on the collection leaves every source at its position.
C9_AddAndMergeKeepPositions ==
    ret'.op \in {"add", "merge"} =>
        SubSeq(maps'[ret'.self], 1, Len(maps[ret'.self])) = maps[ret'.self]

\* C9: the lookup by origin and the lookup by position agree, in every state and
\* across every add and merge.
C9_Lookup == [](C9_NamedIsFirstAndGetAgrees) /\ [][C9_AddAndMergeKeepPositions]_vars

\* C9's case: named("a") on a collection that received sources by merge, whose
\* second and third sources both have the origin "a", returned the second.
C9_Witness ==
    /\ ret.op = "named" /\ ret.name = OriginA
    /\ drained[CHOOSE m \in MapNames : m # ret.self]
    /\ Len(maps[ret.self]) = 3
    /\ maps[ret.self][1].origin = Some(OriginB)
    /\ maps[ret.self][2].origin = Some(OriginA)
    /\ maps[ret.self][3].origin = Some(OriginA)
    /\ maps[ret.self][2] # maps[ret.self][3]
    /\ ret.res = Ok(maps[ret.self][2])

-----------------------------------------------------------------------------
(* Source: the claims. *)

Accesses == {"content", "hash"}

\* no text is cached when call k is made: every earlier content() or hash() was
\* followed by a dispose_content()
CacheEmptyBefore(k) ==
    \A j \in 1..(k - 1) :
        hist[j].op \in Accesses => \E d \in (j + 1)..(k - 1) : hist[d].op = "dispose"

\* C7: on a located Source whose reads succeed, a call opens the file exactly
\* when it is a content() or hash() made while the cache is empty (the first
\* access, or the first after a dispose_content()); every other content()
\* returns the text with no read.
C7_LazyCache ==
    (IsSome(source.root) /\ IsSome(disk)) =>
        /\ \A k \in 1..Len(hist) :
              hist[k].read <=> (hist[k].op \in Accesses /\ CacheEmptyBefore(k))
        /\ (Len(hist) > 0 /\ hist[Len(hist)].op = "content") => sret = Ok(Unwrap(disk))

\* C7's case: content(), content(), dispose_content(), content() made two reads.
C7_Witness ==
    /\ IsSome(source.root) /\ IsSome(disk)
    /\ Len(hist) = 4
    /\ hist[1] = [op |-> "content", read |-> TRUE]
    /\ hist[2] = [op |-> "content", read |-> FALSE]
    /\ hist[3] = [op |-> "dispose", read |-> FALSE]
    /\ hist[4] = [op |-> "content", read |-> TRUE]
    /\ sret = Ok(FileText)

\* C8: an inline Source has no root, no origin and its content in every
\* reachable state; dispose_content() leaves it as it is, and a later content()
\* returns the original text and does not panic.
C8_InlineKeepsContent ==
    ~IsSome(source.root) =>
        /\ ~IsSome(source.origin)
        /\ source.content = Some(InlineText)
        /\ sret.kind # "Panic"
        /\ (Len(hist) > 0 /\ hist[Len(hist)].op = "content") => sret = Ok(InlineText)

-----------------------------------------------------------------------------
(* The loaders: the claims. *)

\* C3: for both loaders, load(name) fails with InvalidSource exactly when
\* supports(name) is false; unsupported, it fails with neither IoError nor a
\* panic; supported, it never fails with InvalidSource, nested loads included.
C3_InvalidSourceIffUnsupported ==
    lret.op \in {"file_load", "dir_load"} =>
        /\ lret.res.kind = "InvalidSource" <=> ~lret.supports
        /\ ~lret.supports => lret.res.kind \notin {"IoError", "Panic"}
        /\ ~lret.supports => lret.res.msg = NotSupported(lret.name)

\* C3's cases: a directory rejected for an unlistable nested directory, and a
\* supported directory whose load fails on a read, with IoError.
C3_Witness ==
    \/ /\ lret.op = "dir_load" /\ lret.name = DirS
       /\ fs[DirS] = "dir" /\ fs[DirT] = "baddir"
       /\ ~lret.supports /\ lret.res.kind = "InvalidSource"
    \/ /\ lret.op = "dir_load" /\ lret.name = RootStr
       /\ fs[DirT] = "dir" /\ fs[FileDef] = "badfile"
       /\ fs[FileMain] = "none" /\ fs[FileRoad] = "none"
       /\ lret.supports /\ lret.res.kind = "IoError"

IsRelative(name) == ~StartsWith(name, <<"/">>)

\* C4: when root joined with a relative d is an existing directory,
\* load_directories(root, [d]) does not fail with InvalidSource and returns what
\* the call with the absolute path returns.
C4_RelativeDirectoryLoads ==
    (/\ lret.op = "load_directories"
     /\ Len(lret.dirs) = 1
     /\ IsRelative(lret.dirs[1])
     /\ IsDir(PathJoin(RootStr, lret.dirs[1]))) =>
        /\ lret.res.kind # "InvalidSource"
        /\ lret.res = LoadDirectories(RootStr, <<PathJoin(RootStr, lret.dirs[1])>>)

\* the regular files with the extension `ara` at any depth below directory name
AraFilesBelow(name) ==
    {q \in AllPaths :
        /\ fs[q] \in {"file", "badfile"}
        /\ StartsWith(q, Resolve(name) \o <<"/">>)
        /\ Extension(q) = Some(ARA_SCRIPT_EXTENSION)}

\* source s was made from file q by a loader of ldrs: it names q relative to the
\* loader's root (as its origin, or as its root)
MadeFrom(s, q, ldrs) ==
    \E i \in 1..Len(ldrs) :
        /\ IsSome(StripPrefix(q, ldrs[i]))
        /\ StripPrefix(q, ldrs[i]) \in {s.origin, s.root}

\* C5: load on a supported directory returns, without error, exactly one source
\* for each regular `ara` file at any depth of the subtree and none for any
\* other file.
C5_DirectoryLoadsEveryAraFile ==
    (lret.op = "dir_load" /\ lret.supports) =>
        /\ lret.res.kind = "Ok"
        /\ Len(lret.res.sources) = Cardinality(AraFilesBelow(lret.name))
        /\ \A q \in AraFilesBelow(lret.name) :
              \E i \in 1..Len(lret.res.sources) : MadeFrom(lret.res.sources[i], q, loaders)

\* the compound suffix of a definition file's name
DefinitionSuffix == <<".">> \o ARA_DEFINTION_EXTENSION

\* C6: a source loaded by FileSourceLoader has kind Definition if and only if
\* its file name ends in `.d.ara`; any other `ara` file has kind Script.
C6_KindBySuffix ==
    (lret.op = "file_load" /\ lret.res.kind = "Ok") =>
        /\ Len(lret.res.sources) = 1
        /\ lret.res.sources[1].kind =
              IF EndsWith(FileName(lret.name), DefinitionSuffix) THEN "Definition"
              ELSE "Script"

\* C10: load on a supported file returns one located, lazy source: root the
\* loader's root, origin the path relative to it, content unset, no text read.
C10_FileLoadIsLazy ==
    (lret.op = "file_load" /\ lret.supports) =>
        /\ lret.res.kind = "Ok"
        /\ lret.res.sources = <<SourceNew(lret.res.sources[1].kind, RootStr,
                                          Unwrap(StripPrefix(lret.name, RootStr)))>>
        /\ lret.res.reads = 0

=============================================================================
